---- MODULE Spec2Model ----
(***************************************************************************)
(* A model of MapReduceFramework (src/mapreduce_framework.py) running the  *)
(* passenger flight count job (src/mapreduce_jobs.py) or a user supplied   *)
(* Mapper / Reducer.  One engine instance, a caller that invokes run       *)
(* sequentially, and the worker threads of the two pools, each a small     *)
(* program counter machine whose steps are the atomic operations of the    *)
(* worker loops (queue.empty, queue.get, the generator's next, the lock    *)
(* acquisition and the append under the lock).  The threads of a pool run  *)
(* the same code on the same arguments and nothing reads their names, so a *)
(* pool is the bag of the states of its threads.                           *)
(* Spec is one run with any Mapper and Reducer, SeqSpec runs the count job *)
(* again and again, UserSpec and FairSpec run user code, ShuffleSpec may   *)
(* perform the shuffle step twice, and OverlapSpec lets a second           *)
(* invocation of run reset the engine while the first is in progress.      *)
(***************************************************************************)
EXTENDS Integers, Sequences, FiniteSets, Bags, TLC

\* ------------------------------------------------------------------ bounds
MaxInput == 2      \* longest input list handed to run
MaxMappers == 2    \* largest num_mappers the engine is constructed with
MaxReducers == 2   \* largest num_reducers the engine is constructed with
MaxRuns == 2       \* sequential invocations of run on the engine instance
MaxLines == 2      \* rows of the airport file

\* --------------------------------------------------- program constants
LatitudeLimit == 90     \* lat_float < -90 or lat_float > 90
LongitudeLimit == 180   \* lat_float < -180 or lat_float > 180
NameMin == 3            \* AIRPORT_NAME_PATTERN = ^.{3,20}$
NameMax == 20
CodeLen == 3            \* AIRPORT_CODE_PATTERN = ^[A-Z]{3}$
FractionMax == 13       \* COORDINATE_PATTERN = ^-?\d+(\.\d{1,13})?$
RowFields == 4          \* len(row) != 4

Ids == {"P1", "P2"}
\* validated passenger records (only the field the job reads), and a record
\* that lacks the field
PassengerRecords == {[passenger_id |-> "P1"], [passenger_id |-> "P2"], [flight_id |-> "F1"]}
OpaqueRecord == [flight_id |-> "F1"]
\* the pairs a user Mapper may yield
UserPairs == {<<"P1", 1>>, <<"P2", 2>>}
MapperKinds == {"PassengerFlightCount", "user"}
ReducerKinds == {"PassengerFlightCount", "user"}

VARIABLES
    num_mappers, num_reducers,      \* constructor arguments
    map_queue,                      \* queue.Queue of (key, value)
    shuffle_dict,                   \* dict key -> list, in insertion order
    shuffle_lock,                   \* threading.Lock: TRUE when locked
    reduce_queue,                   \* queue.Queue of (key, values)
    results,                        \* the list self.results
    results_lock,                   \* threading.Lock: TRUE when locked
    pc,                             \* where the caller is inside run
    runs,                           \* number of invocations of run so far
    input_data, mapper, reducer,    \* the arguments of the current run
    other_input,                    \* the argument of an overlapping run
    returned,                       \* the list the previous run returned
    mw,                             \* mapper threads: the bag of their states
    rw,                             \* reducer threads: the bag of their states
    map_log,                        \* per map task: pairs yielded, outcome
    reduce_log,                     \* per reduce key: results yielded, outcome
    line_num,                       \* AirportDataParser.parse: rows read so far
    airports,                       \* AirportDataParser.parse: dict code -> record
    parsed                          \* AirportDataParser.parse has returned

vars == <<num_mappers, num_reducers, map_queue, shuffle_dict, shuffle_lock,
          reduce_queue, results, results_lock, pc, runs, input_data, mapper,
          reducer, other_input, returned, mw, rw, map_log, reduce_log,
          line_num, airports, parsed>>

engine == <<num_mappers, num_reducers>>
parser == <<line_num, airports, parsed>>
framework ==
    <<num_mappers, num_reducers, map_queue, shuffle_dict, shuffle_lock, reduce_queue,
      results, results_lock, pc, runs, input_data, mapper, reducer, other_input,
      returned, mw, rw, map_log, reduce_log>>
args == <<input_data, mapper, reducer, other_input>>

\* keys of the results of the previous run
prev_keys == {returned[i][1] : i \in DOMAIN returned}

\* ------------------------------------------------------------- sequences
RECURSIVE SeqSum(_)
SeqSum(s) == IF s = <<>> THEN 0 ELSE Head(s) + SeqSum(Tail(s))

SeqsUpTo(S, n) == UNION {[1..k -> S] : k \in 0..n}

Range(s) == {s[i] : i \in DOMAIN s}

\* ----------------------------------------------------------------- dict
\* A dict is the sequence of its (key, list) entries in insertion order.
DictKeys(d) == {d[i][1] : i \in DOMAIN d}

DictIndex(d, k) == CHOOSE i \in DOMAIN d : d[i][1] = k

DictGet(d, k) == d[DictIndex(d, k)][2]

\* d[k] = v
DictSet(d, k, v) ==
    IF k \in DictKeys(d)
    THEN [d EXCEPT ![DictIndex(d, k)] = <<k, v>>]
    ELSE Append(d, <<k, v>>)

\* ------------------------------------------------------------ the job
\* main.prepare_input_data: [(i, record) for i, record in enumerate(records)]
prepare_input_data(records) == [i \in DOMAIN records |-> <<i - 1, records[i]>>]

TaskKeys == {input_data[i][1] : i \in DOMAIN input_data}

\* PassengerFlightCountMapper.map as a generator: what its n-th next() does
\* (n counts the pairs already yielded).  record['passenger_id'] raises
\* KeyError on a record without the field.
PassengerFlightCountMapper(record, n) ==
    IF "passenger_id" \notin DOMAIN record THEN {[do |-> "raise"]}
    ELSE IF n = 0 THEN {[do |-> "yield", pair |-> <<record.passenger_id, 1>>]}
    ELSE {[do |-> "stop"]}

\* A user Mapper (the abstract Mapper.map): any generator that yields no pair
\* or one pair of UserPairs and then returns or raises.
UserMapper(record, n) ==
    {[do |-> "raise"], [do |-> "stop"]} \cup
    (IF n = 0 THEN {[do |-> "yield", pair |-> p] : p \in UserPairs} ELSE {})

MapperNext(record, n) ==
    IF mapper = "PassengerFlightCount"
    THEN PassengerFlightCountMapper(record, n)
    ELSE UserMapper(record, n)

\* PassengerFlightCountReducer.reduce: yield (key, sum(values)) once.
PassengerFlightCountReducer(key, values, n) ==
    IF n = 0 THEN {[do |-> "yield", pair |-> <<key, SeqSum(values)>>]}
    ELSE {[do |-> "stop"]}

\* A user Reducer (the abstract Reducer.reduce): yields no result or one
\* result for its key and then returns or raises.
UserReducer(key, values, n) ==
    {[do |-> "raise"], [do |-> "stop"]} \cup
    (IF n = 0 THEN {[do |-> "yield", pair |-> <<key, SeqSum(values)>>]} ELSE {})

ReducerNext(key, values, n) ==
    IF reducer = "PassengerFlightCount"
    THEN PassengerFlightCountReducer(key, values, n)
    ELSE UserReducer(key, values, n)

\* ------------------------------------------------------------- threads
\* a pool that is never empty
AtLeastOneMapper == IF num_mappers = 0 THEN 1 ELSE num_mappers

\* range(self.num_mappers), range(self.num_reducers): the threads of a pool
MapperThreads == num_mappers
ReducerThreads == num_reducers

\* n threads in the state w
Pool(n, w) == IF n = 0 THEN EmptyBag ELSE w :> n

\* the thread in the state w takes a step to the state w2
Step(pool, w, w2) == (pool (-) SetToBag({w})) (+) SetToBag({w2})

Threads(pool) == BagToSet(pool)

NoTask == <<>>
IdleWorker == [pc |-> "done", task |-> NoTask, n |-> 0, pair |-> <<>>]
StartedWorker == [IdleWorker EXCEPT !.pc = "check"]

NewLog(keys) == [k \in keys |-> [emits |-> <<>>, outcome |-> "pending"]]

\* ----------------------------------------------------------------- Init
\* MapReduceFramework.__init__
Init ==
    /\ num_mappers \in 0..MaxMappers
    /\ num_reducers \in 0..MaxReducers
    /\ map_queue = <<>>
    /\ shuffle_dict = <<>>
    /\ shuffle_lock = FALSE
    /\ reduce_queue = <<>>
    /\ results = <<>>
    /\ results_lock = FALSE
    /\ pc = "idle"
    /\ runs = 0
    /\ input_data = <<>>
    /\ mapper = "PassengerFlightCount"
    /\ reducer = "PassengerFlightCount"
    /\ other_input = <<>>
    /\ returned = <<>>
    /\ mw = Pool(MapperThreads, IdleWorker)
    /\ rw = Pool(ReducerThreads, IdleWorker)
    /\ map_log = NewLog({})
    /\ reduce_log = NewLog({})
    /\ line_num = 0
    /\ airports = <<>>
    /\ parsed = FALSE

\* ------------------------------------------------------------------ run
\* run, lines 90-110: reset the state, load the map queue, start the mapper
\* threads.
\* The four assignments of "Reset state": each field is bound to a new, empty
\* object whatever the old one held.
NewQueue(old) == <<>>

\* a reset that leaves the dict of the previous run in place
KeptDict(old) == old

NewDict(old) == <<>>
NewList(old) == <<>>

\* a reset that empties the list in place: self.results.clear()
ClearedInPlace(old) == <<>>

\* "self.results = []" binds the name to a new list: the list it named
\* before, which the previous run returned, stays as it was
Detached(old) == old

InputsFor(m) ==
    IF m = "PassengerFlightCount"
    THEN SeqsUpTo(PassengerRecords, MaxInput)
    ELSE SeqsUpTo({OpaqueRecord}, MaxInput)

Invoke(records, m, r) ==
    /\ LET inp == prepare_input_data(records) IN
       /\ input_data' = inp
       /\ mapper' = m
       /\ reducer' = r
       /\ shuffle_dict' = NewDict(shuffle_dict)
       /\ reduce_queue' = NewQueue(reduce_queue)
       /\ results' = NewList(results)
       /\ map_queue' = NewQueue(map_queue) \o inp
       /\ map_log' = NewLog({inp[i][1] : i \in DOMAIN inp})
    /\ reduce_log' = NewLog({})
    /\ mw' = Pool(MapperThreads, StartedWorker)
    /\ rw' = Pool(ReducerThreads, IdleWorker)
    /\ runs' = runs + 1
    /\ pc' = "mapping"
    /\ other_input' = <<>>
    /\ returned' = Detached(results)
    /\ UNCHANGED <<engine, parser, shuffle_lock, results_lock>>

Run(mappers, reducers) ==
    \E m \in mappers, r \in reducers :
       \E records \in InputsFor(m) : Invoke(records, m, r)

\* the first invocation of run on a new engine, with any Mapper and Reducer
FirstRun ==
    /\ pc = "idle"
    /\ Run(MapperKinds, ReducerKinds)

\* the first invocation of run, with a user Mapper and a user Reducer, each
\* invocation of which may yield, return or raise
UserRun ==
    /\ pc = "idle"
    /\ Run({"user"}, {"user"})

\* run invoked again and again on the same engine, each invocation after the
\* previous one has returned, with the passenger flight count job (main.run_job)
SeqRun ==
    /\ pc \in {"idle", "done"}
    /\ runs < MaxRuns
    /\ Run({"PassengerFlightCount"}, {"PassengerFlightCount"})

\* a join that returns while threads of the pool still run
JoinSkipped(pool) == TRUE

\* "for t in threads: t.join()" returns when every thread of the pool has
\* ended
AllJoined(pool) == \A w \in Threads(pool) : w.pc = "done"

\* the first invocation of run, with the passenger flight count job on the
\* records of one passenger
FirstOfTwo ==
    /\ pc = "idle"
    /\ \E records \in SeqsUpTo({[passenger_id |-> "P1"]}, MaxInput) :
         Invoke(records, "PassengerFlightCount", "PassengerFlightCount")

\* run invoked a second time on the engine, by another thread and on the
\* records of another passenger, while the first invocation has not
\* returned: lines 90-98 of the second invocation, its reset and its load.
\* The threads it starts next have not been scheduled yet.
OverlappingRun ==
    /\ pc \in {"mapping", "shuffling", "shuffled", "reducing"}
    /\ runs = 1
    /\ \E records \in SeqsUpTo({[passenger_id |-> "P2"]}, MaxInput) \ {<<>>} :
         LET inp == prepare_input_data(records) IN
         /\ other_input' = inp
         /\ map_queue' = NewQueue(map_queue) \o inp
         /\ map_log' = [k \in DOMAIN map_log \cup {inp[i][1] : i \in DOMAIN inp} |->
                           IF k \in DOMAIN map_log THEN map_log[k]
                           ELSE [emits |-> <<>>, outcome |-> "pending"]]
    /\ shuffle_dict' = NewDict(shuffle_dict)
    /\ reduce_queue' = NewQueue(reduce_queue)
    /\ results' = NewList(results)
    /\ runs' = runs + 1
    /\ UNCHANGED <<engine, parser, input_data, mapper, reducer, shuffle_lock, results_lock,
                   pc, returned, mw, rw, reduce_log>>

\* run, lines 112-115: join every mapper thread.
JoinMappers ==
    /\ pc = "mapping"
    /\ AllJoined(mw)
    /\ pc' = "shuffling"
    /\ UNCHANGED <<engine, parser, args, map_queue, shuffle_dict, shuffle_lock, reduce_queue,
                   results, results_lock, runs, returned, mw, rw, map_log, reduce_log>>

\* a shuffle that puts every entry of the dict twice
ShuffleTwice(d) ==
    [i \in 1..(2 * Len(d)) |-> <<d[((i - 1) % Len(d)) + 1][1], d[((i - 1) % Len(d)) + 1][2]>>]

\* a shuffle that misses the last entry of the dict
ShuffleDropsLast(d) == [i \in 1..(Len(d) - 1) |-> <<d[i][1], d[i][2]>>]

\* _shuffle: one reduce task per entry of shuffle_dict, in insertion order.
ShuffleTasks(d) == [i \in DOMAIN d |-> <<d[i][1], d[i][2]>>]

\* a shuffle that takes the entries out of the dict
Drained(d) == <<>>

\* the dict after "for key, values in self.shuffle_dict.items()", which reads it
Iterated(d) == d

Shuffle ==
    /\ pc = "shuffling"
    /\ shuffle_dict' = Iterated(shuffle_dict)
    /\ reduce_queue' = reduce_queue \o ShuffleTasks(shuffle_dict)
    /\ reduce_log' = NewLog(DictKeys(shuffle_dict))
    /\ pc' = "shuffled"
    /\ UNCHANGED <<engine, parser, args, map_queue, shuffle_lock,
                   results, results_lock, runs, returned, mw, rw, map_log>>

\* _shuffle performed once more on the dict as the first shuffle left it,
\* before any reducer thread is started
Reshuffle ==
    /\ pc = "shuffled"
    /\ shuffle_dict' = Iterated(shuffle_dict)
    /\ reduce_queue' = reduce_queue \o ShuffleTasks(shuffle_dict)
    /\ pc' = "reshuffled"
    /\ UNCHANGED <<engine, parser, args, map_queue, shuffle_lock, results, results_lock,
                   runs, returned, mw, rw, map_log, reduce_log>>

\* run, lines 120-130: start the reducer threads.
StartReducers ==
    /\ pc = "shuffled"
    /\ rw' = Pool(ReducerThreads, StartedWorker)
    /\ pc' = "reducing"
    /\ UNCHANGED <<engine, parser, args, map_queue, shuffle_dict, shuffle_lock, reduce_queue,
                   results, results_lock, runs, returned, mw, map_log, reduce_log>>

\* run, lines 132-137: join every reducer thread and return self.results.
JoinReducers ==
    /\ pc = "reducing"
    /\ AllJoined(rw)
    /\ pc' = "done"
    /\ UNCHANGED <<engine, parser, args, map_queue, shuffle_dict, shuffle_lock, reduce_queue,
                   results, results_lock, runs, returned, mw, rw, map_log, reduce_log>>

\* -------------------------------------------------------- _map_worker
\* where a worker goes after the except clauses of its loop
\* a get that blocks on an empty queue instead of raising queue.Empty
AfterEmptyBlocks == "get"

\* an error that ends the worker
AfterErrorBreaks == "done"

AfterEmpty == "done"        \* except queue.Empty: break
AfterError == "check"       \* except Exception: log, back to the while test

\* a worker that enters the with block without waiting for the lock
LockIgnored(l) == TRUE

LockIsFree(l) == ~l

\* line 151 on the dict d: self.shuffle_dict[map_key] = []
TableCreate(d, k) == DictSet(d, k, <<>>)

\* the list of the key replaced by a list of the new value alone
TableOverwrite(d, k, v) == DictSet(d, k, <<v>>)

\* line 152 on the dict d, which has the key k
TableAppend(d, k, v) == DictSet(d, k, Append(DictGet(d, k), v))

\* a get that hands out the first task and leaves it in the queue
Peeked(q) == q

\* what get(block=False) leaves in a queue that is not empty
Dequeued(q) == Tail(q)

\* while not self.map_queue.empty()
MapCheck(w) ==
    /\ w.pc = "check"
    /\ mw' = Step(mw, w, [w EXCEPT !.pc = IF map_queue = <<>> THEN "done" ELSE "get"])
    /\ UNCHANGED <<engine, parser, args, map_queue, shuffle_dict, shuffle_lock, reduce_queue,
                   results, results_lock, pc, runs, returned, rw, map_log, reduce_log>>

\* key, value = self.map_queue.get(block=False); mapper.map(key, value)
MapGet(w) ==
    /\ w.pc = "get"
    /\ IF map_queue = <<>>
       THEN /\ mw' = Step(mw, w, [w EXCEPT !.pc = AfterEmpty])
            /\ UNCHANGED <<map_queue, map_log>>
       ELSE /\ mw' = Step(mw, w, [pc |-> "next", task |-> Head(map_queue),
                                  n |-> 0, pair |-> <<>>])
            /\ map_queue' = Dequeued(map_queue)
            /\ map_log' = [map_log EXCEPT ![Head(map_queue)[1]].outcome = "running"]
    /\ UNCHANGED <<engine, parser, args, shuffle_dict, shuffle_lock, reduce_queue,
                   results, results_lock, pc, runs, returned, rw, reduce_log>>

\* one step of "for map_key, map_value in mapper.map(key, value)": the
\* generator yields the next pair, returns (then task_done), or raises (then
\* the except Exception clause)
MapNext(w) ==
    /\ w.pc = "next"
    /\ \E step \in MapperNext(w.task[2], w.n) :
         LET key == w.task[1] IN
         CASE step.do = "yield" ->
                /\ mw' = Step(mw, w, [w EXCEPT !.pc = "lock", !.pair = step.pair,
                                               !.n = @ + 1])
                /\ map_log' = [map_log EXCEPT ![key].emits = Append(@, step.pair)]
           [] step.do = "stop" ->
                /\ mw' = Step(mw, w, StartedWorker)
                /\ map_log' = [map_log EXCEPT ![key].outcome = "ok"]
           [] OTHER ->
                /\ mw' = Step(mw, w, [StartedWorker EXCEPT !.pc = AfterError])
                /\ map_log' = [map_log EXCEPT ![key].outcome = "raised"]
    /\ UNCHANGED <<engine, parser, args, map_queue, shuffle_dict, shuffle_lock, reduce_queue,
                   results, results_lock, pc, runs, returned, rw, reduce_log>>

\* with self.shuffle_lock: if map_key not in self.shuffle_dict
MapLock(w) ==
    /\ w.pc = "lock"
    /\ LockIsFree(shuffle_lock)
    /\ shuffle_lock' = TRUE
    /\ mw' = Step(mw, w, [w EXCEPT !.pc = IF w.pair[1] \notin DictKeys(shuffle_dict)
                                          THEN "create" ELSE "append"])
    /\ UNCHANGED <<engine, parser, args, map_queue, shuffle_dict, reduce_queue,
                   results, results_lock, pc, runs, returned, rw, map_log, reduce_log>>

\* self.shuffle_dict[map_key] = [], when the key was missing
MapCreate(w) ==
    /\ w.pc = "create"
    /\ shuffle_dict' = TableCreate(shuffle_dict, w.pair[1])
    /\ mw' = Step(mw, w, [w EXCEPT !.pc = "append"])
    /\ UNCHANGED <<engine, parser, args, map_queue, shuffle_lock, reduce_queue,
                   results, results_lock, pc, runs, returned, rw, map_log, reduce_log>>

\* self.shuffle_dict[map_key].append(map_value); leaving the with block.
\* The subscript raises KeyError when the dict self.shuffle_dict names by now
\* has not the key: the with block releases the lock and the except
\* Exception clause ends the task.
MapAppend(w) ==
    /\ w.pc = "append"
    /\ shuffle_lock' = FALSE
    /\ IF w.pair[1] \in DictKeys(shuffle_dict)
       THEN /\ shuffle_dict' = TableAppend(shuffle_dict, w.pair[1], w.pair[2])
            /\ mw' = Step(mw, w, [w EXCEPT !.pc = "next", !.pair = <<>>])
            /\ UNCHANGED map_log
       ELSE /\ mw' = Step(mw, w, [StartedWorker EXCEPT !.pc = AfterError])
            /\ map_log' = [map_log EXCEPT ![w.task[1]].outcome = "raised"]
            /\ UNCHANGED shuffle_dict
    /\ UNCHANGED <<engine, parser, args, map_queue, reduce_queue,
                   results, results_lock, pc, runs, returned, rw, reduce_log>>

\* ----------------------------------------------------- _reduce_worker
\* while not self.reduce_queue.empty()
ReduceCheck(w) ==
    /\ w.pc = "check"
    /\ rw' = Step(rw, w, [w EXCEPT !.pc = IF reduce_queue = <<>> THEN "done" ELSE "get"])
    /\ UNCHANGED <<engine, parser, args, map_queue, shuffle_dict, shuffle_lock, reduce_queue,
                   results, results_lock, pc, runs, returned, mw, map_log, reduce_log>>

\* key, values = self.reduce_queue.get(block=False); reducer.reduce(key, values)
ReduceGet(w) ==
    /\ w.pc = "get"
    /\ IF reduce_queue = <<>>
       THEN /\ rw' = Step(rw, w, [w EXCEPT !.pc = AfterEmpty])
            /\ UNCHANGED <<reduce_queue, reduce_log>>
       ELSE /\ rw' = Step(rw, w, [pc |-> "next", task |-> Head(reduce_queue),
                                  n |-> 0, pair |-> <<>>])
            /\ reduce_queue' = Dequeued(reduce_queue)
            /\ reduce_log' = [reduce_log EXCEPT ![Head(reduce_queue)[1]].outcome = "running"]
    /\ UNCHANGED <<engine, parser, args, map_queue, shuffle_dict, shuffle_lock,
                   results, results_lock, pc, runs, returned, mw, map_log>>

\* one step of "for result in reducer.reduce(key, values)"
ReduceNext(w) ==
    /\ w.pc = "next"
    /\ \E step \in ReducerNext(w.task[1], w.task[2], w.n) :
         LET key == w.task[1] IN
         CASE step.do = "yield" ->
                /\ rw' = Step(rw, w, [w EXCEPT !.pc = "lock", !.pair = step.pair,
                                               !.n = @ + 1])
                /\ reduce_log' = [reduce_log EXCEPT ![key].emits = Append(@, step.pair)]
           [] step.do = "stop" ->
                /\ rw' = Step(rw, w, StartedWorker)
                /\ reduce_log' = [reduce_log EXCEPT ![key].outcome = "ok"]
           [] OTHER ->
                /\ rw' = Step(rw, w, [StartedWorker EXCEPT !.pc = AfterError])
                /\ reduce_log' = [reduce_log EXCEPT ![key].outcome = "raised"]
    /\ UNCHANGED <<engine, parser, args, map_queue, shuffle_dict, shuffle_lock, reduce_queue,
                   results, results_lock, pc, runs, returned, mw, map_log>>

\* with self.results_lock
ReduceLock(w) ==
    /\ w.pc = "lock"
    /\ LockIsFree(results_lock)
    /\ results_lock' = TRUE
    /\ rw' = Step(rw, w, [w EXCEPT !.pc = "append"])
    /\ UNCHANGED <<engine, parser, args, map_queue, shuffle_dict, shuffle_lock, reduce_queue,
                   results, pc, runs, returned, mw, map_log, reduce_log>>

\* self.results.append(result); leaving the with block
ReduceAppend(w) ==
    /\ w.pc = "append"
    /\ results' = Append(results, w.pair)
    /\ results_lock' = FALSE
    /\ rw' = Step(rw, w, [w EXCEPT !.pc = "next", !.pair = <<>>])
    /\ UNCHANGED <<engine, parser, args, map_queue, shuffle_dict, shuffle_lock, reduce_queue,
                   pc, runs, returned, mw, map_log, reduce_log>>

\* ------------------------------------------------------------ the system
MapWorker(w) ==
    MapCheck(w) \/ MapGet(w) \/ MapNext(w) \/ MapLock(w) \/ MapCreate(w) \/ MapAppend(w)

ReduceWorker(w) ==
    ReduceCheck(w) \/ ReduceGet(w) \/ ReduceNext(w) \/ ReduceLock(w) \/ ReduceAppend(w)

Engine ==
    \/ JoinMappers
    \/ Shuffle
    \/ StartReducers
    \/ JoinReducers
    \/ \E w \in Threads(mw) : MapWorker(w)
    \/ \E w \in Threads(rw) : ReduceWorker(w)

Next == FirstRun \/ Engine

Spec == Init /\ [][Next]_vars

NextSeq == SeqRun \/ Engine

SeqSpec == Init /\ [][NextSeq]_vars

\* The threads of the engine are scheduled by the operating system: a step
\* of the engine that stays possible is eventually taken.  Whether the caller
\* invokes run is up to the caller.
\* an invocation of run that other invocations on the same engine overlap
NextOverlap == FirstOfTwo \/ Engine \/ OverlappingRun

OverlapSpec == Init /\ [][NextOverlap]_vars

\* one run in which the shuffle step may be performed a second time
NextShuffle == FirstRun \/ Engine \/ Reshuffle

ShuffleSpec == Init /\ [][NextShuffle]_vars

NextUser == UserRun \/ Engine

UserSpec == Init /\ [][NextUser]_vars

FairSpec == UserSpec /\ WF_vars(Engine)

\* ------------------------------------------------------- what is observed
Count(s, x) == Cardinality({i \in DOMAIN s : s[i] = x})

PositivePools == num_mappers >= 1 /\ num_reducers >= 1

\* the pairs the Mapper invocations of this run have yielded, by task
RECURSIVE Yielded(_, _)
Yielded(log, keys) ==
    IF keys = {} THEN <<>>
    ELSE LET k == CHOOSE x \in keys : TRUE
         IN log[k].emits \o Yielded(log, keys \ {k})

YieldedBy(log, outcomes) == Yielded(log, {k \in DOMAIN log : log[k].outcome \in outcomes})

AnyOutcome == {"pending", "running", "ok", "raised"}

EmittedKeys == {p[1] : p \in Range(YieldedBy(map_log, AnyOutcome))}

\* the sum of the values the Mapper yielded for the key k
RECURSIVE SumFor(_, _)
SumFor(pairs, k) ==
    IF pairs = <<>> THEN 0
    ELSE (IF Head(pairs)[1] = k THEN Head(pairs)[2] ELSE 0) + SumFor(Tail(pairs), k)

ResultKeys == {results[i][1] : i \in DOMAIN results}

\* how often the value of the pair p is in the list of its key
TableCount(p) ==
    IF p[1] \in DictKeys(shuffle_dict) THEN Count(DictGet(shuffle_dict, p[1]), p[2]) ELSE 0

CountJob == mapper = "PassengerFlightCount" /\ reducer = "PassengerFlightCount"

\* the passenger ids of the input records, and the records that carry an id
InputIds ==
    {input_data[i][2].passenger_id :
        i \in {j \in DOMAIN input_data : "passenger_id" \in DOMAIN input_data[j][2]}}

Carrying(id) ==
    {i \in DOMAIN input_data :
        /\ "passenger_id" \in DOMAIN input_data[i][2]
        /\ input_data[i][2].passenger_id = id}

\* ---------------------------------------------------------------- claims
\* C1: count conservation.  When run has returned from the counting job on
\* an engine with at least one mapper and one reducer thread, the results
\* are exactly one pair (id, n) per distinct passenger id of the input, n
\* being the number of input records that carry the id, and nothing else.
CountConservation ==
    (pc = "done" /\ CountJob /\ PositivePools) =>
        /\ Range(results) = {<<id, Cardinality(Carrying(id))>> : id \in InputIds}
        /\ Len(results) = Cardinality(InputIds)

\* two mapper threads, two records of one passenger, counted as 2
CountConservationWitness ==
    /\ pc = "done" /\ CountJob
    /\ num_mappers = 2 /\ num_reducers = 2
    /\ Len(input_data) = 2
    /\ results = <<<<"P1", 2>>>>

\* C2: commutative-reducer determinism.  With a Mapper that never raises and
\* the summing reducer, the mapping run returns is a function of the pairs
\* the Mapper yields for the input alone (each yielded key with the sum of
\* the values yielded for it), whatever the pool sizes >= 1 and the schedule.
SumDeterminism ==
    (/\ pc = "done" /\ reducer = "PassengerFlightCount" /\ PositivePools
     /\ \A k \in DOMAIN map_log : map_log[k].outcome # "raised") =>
        LET pairs == YieldedBy(map_log, AnyOutcome) IN
        /\ Range(results) = {<<k, SumFor(pairs, k)>> : k \in EmittedKeys}
        /\ Len(results) = Cardinality(EmittedKeys)

\* a user Mapper that yielded the same key from two tasks, two mapper threads
SumDeterminismWitness ==
    /\ pc = "done" /\ mapper = "user" /\ reducer = "PassengerFlightCount"
    /\ num_mappers = 2 /\ num_reducers = 2
    /\ results = <<<<"P2", 4>>>>

\* C3: no key loss.  When no Mapper or Reducer invocation raised and every
\* Reducer invocation yielded one result, the keys of the returned results are
\* the keys the Mapper yielded.
NoKeyLoss ==
    (/\ pc = "done" /\ PositivePools
     /\ \A k \in DOMAIN map_log : map_log[k].outcome # "raised"
     /\ \A k \in DOMAIN reduce_log :
            /\ reduce_log[k].outcome # "raised"
            /\ reduce_log[k].outcome = "ok" => Len(reduce_log[k].emits) = 1) =>
        ResultKeys = EmittedKeys

\* a user Mapper and a user Reducer, two keys, none lost
NoKeyLossWitness ==
    /\ pc = "done" /\ PositivePools
    /\ mapper = "user" /\ reducer = "user"
    /\ \A k \in DOMAIN map_log : map_log[k].outcome = "ok"
    /\ \A k \in DOMAIN reduce_log :
            reduce_log[k].outcome = "ok" /\ Len(reduce_log[k].emits) = 1
    /\ ResultKeys = {"P1", "P2"}

\* C4: state isolation across sequential runs.  A second (or later) run on
\* the same engine starts with the map queue holding its own input and with an
\* empty shuffle dict, reduce queue and result list; all through the run these
\* hold only data of this run; and what it returns is what count conservation
\* gives for its own input.
JustStarted == pc = "mapping" /\ \A k \in DOMAIN map_log : map_log[k].outcome = "pending"

StateIsolation ==
    runs > 1 =>
        /\ JustStarted =>
              /\ map_queue = input_data
              /\ shuffle_dict = <<>> /\ reduce_queue = <<>> /\ results = <<>>
        /\ Range(map_queue) \subseteq Range(input_data)
        /\ \A k \in DictKeys(shuffle_dict) :
              \A v \in Range(DictGet(shuffle_dict, k)) :
                 TableCount(<<k, v>>) <= Count(YieldedBy(map_log, AnyOutcome), <<k, v>>)
        /\ \A i \in DOMAIN reduce_queue : reduce_queue[i][1] \in EmittedKeys
        /\ ResultKeys \subseteq EmittedKeys
        /\ (pc = "done" /\ PositivePools) =>
              /\ Range(results) = {<<id, Cardinality(Carrying(id))>> : id \in InputIds}
              /\ Len(results) = Cardinality(InputIds)

\* the first run returned P1, the second has only P2 in its input
StateIsolationWitness ==
    /\ runs = 2 /\ pc = "done"
    /\ prev_keys = {"P1"}
    /\ results = <<<<"P2", 1>>>>

\* C5: a Mapper error discards the whole output of its task.  When the
\* mapping phase has ended, the shuffle dict holds the pairs of the tasks whose
\* Mapper invocation returned, and none of a task whose invocation raised.
MapErrorDiscardsOutput ==
    pc = "shuffling" =>
        \A p \in Range(YieldedBy(map_log, AnyOutcome)) :
            TableCount(p) = Count(YieldedBy(map_log, {"ok"}), p)

\* C6: a Reducer error discards the whole output of its task.  What run
\* returns holds the results of the reduce tasks whose Reducer invocation
\* returned, and none of a task whose invocation raised.
ReduceErrorDiscardsOutput ==
    pc = "done" =>
        \A p \in Range(YieldedBy(reduce_log, AnyOutcome)) :
            Count(results, p) = Count(YieldedBy(reduce_log, {"ok"}), p)

\* C7: a failing task does not affect the others.  A worker ends only when
\* it has seen its queue empty (an error sends it back to polling); with at
\* least one worker in the pool, at the end of the phase the queue is empty,
\* every task has been processed, and every pair of every task that did not
\* fail is in the shuffle dict (respectively in the result list).
FailureIsolation ==
    /\ \A w \in Threads(mw) : (pc = "mapping" /\ w.pc = "done") => map_queue = <<>>
    /\ \A w \in Threads(rw) : (pc = "reducing" /\ w.pc = "done") => reduce_queue = <<>>
    /\ (pc \in {"shuffling", "shuffled", "reducing", "done"} /\ num_mappers >= 1) =>
          /\ map_queue = <<>>
          /\ \A k \in DOMAIN map_log : map_log[k].outcome \in {"ok", "raised"}
          /\ \A p \in Range(YieldedBy(map_log, {"ok"})) :
                TableCount(p) >= Count(YieldedBy(map_log, {"ok"}), p)
    /\ (pc = "done" /\ num_reducers >= 1) =>
          /\ reduce_queue = <<>>
          /\ \A k \in DOMAIN reduce_log : reduce_log[k].outcome \in {"ok", "raised"}
          /\ \A p \in Range(YieldedBy(reduce_log, {"ok"})) :
                Count(results, p) >= Count(YieldedBy(reduce_log, {"ok"}), p)

\* one map task raised and the other did not, one reduce task raised and the
\* other did not, and the result of the latter is returned
FailureIsolationWitness ==
    /\ pc = "done"
    /\ \E j, k \in DOMAIN map_log :
          map_log[j].outcome = "raised" /\ map_log[k].outcome = "ok" /\ map_log[k].emits # <<>>
    /\ \E j, k \in DOMAIN reduce_log :
          /\ reduce_log[j].outcome = "raised" /\ reduce_log[k].outcome = "ok"
          /\ reduce_log[k].emits # <<>> /\ Range(reduce_log[k].emits) \subseteq Range(results)

\* The steps a started run may still take at most: every task still queued
\* and every worker weigh what is left of their loop, a key of the shuffle
\* dict weighs the reduce task it becomes, and the caller weighs the phases
\* ahead.
WorkerWork(w, left) ==
    CASE w.pc = "done" -> 0
      [] w.pc = "get" -> 1
      [] w.pc = "check" -> 2
      [] w.pc = "next" /\ w.n > 0 -> 3
      [] w.pc = "append" -> 4
      [] w.pc = "create" -> 5 + left
      [] w.pc = "lock" -> 6 + left
      [] OTHER -> 7 + left

RECURSIVE PoolWork(_, _, _)
PoolWork(pool, states, left) ==
    IF states = {} THEN 0
    ELSE LET w == CHOOSE x \in states : TRUE
         IN CopiesIn(w, pool) * WorkerWork(w, left) + PoolWork(pool, states \ {w}, left)

\* a queued reduce task: a get, the first next, a lock, an append, the
\* second next and a check; a yield of a Mapper may leave one behind
ReduceTaskWork == WorkerWork([pc |-> "next", n |-> 0], 0)

MapTaskWork == WorkerWork([pc |-> "next", n |-> 0], ReduceTaskWork)

CallerWork ==
    CASE pc = "mapping" -> 2 * num_reducers + 4
      [] pc = "shuffling" -> 2 * num_reducers + 3
      [] pc = "shuffled" -> 2 * num_reducers + 2
      [] pc = "reducing" -> 1
      [] OTHER -> 0

Work ==
    CallerWork
    + PoolWork(mw, Threads(mw), ReduceTaskWork) + MapTaskWork * Len(map_queue)
    + PoolWork(rw, Threads(rw), 0) + ReduceTaskWork * Len(reduce_queue)
    + (IF pc \in {"mapping", "shuffling"} THEN ReduceTaskWork * Len(shuffle_dict) ELSE 0)

Started == pc \in {"mapping", "shuffling", "shuffled", "reducing"}

\* C8: run never surfaces an error.  Whatever the input and whichever
\* Mapper and Reducer invocations raise, a run that has started and not yet
\* returned is never stuck: a step of the caller or of a worker that changes
\* the state is possible; and every such step brings the run nearer to its
\* return statement (Work decreases), so the run reaches it.
RunAlwaysReturns ==
    /\ [](Started => ENABLED <<Engine>>_vars)
    /\ [][Started => Work' < Work]_vars

\* every map task raised after a yield, a reduce task raised, run returned
RunAlwaysReturnsWitness ==
    /\ pc = "done"
    /\ Len(input_data) = 2
    /\ \A k \in DOMAIN map_log : map_log[k].outcome = "raised"
    /\ \E k \in DOMAIN reduce_log : reduce_log[k].outcome = "raised"

\* C9, as claimed: with zero mapper workers or zero reducer workers run
\* never returns.
ZeroPoolNeverReturns == (num_mappers = 0 \/ num_reducers = 0) => pc # "done"

\* C9, amended: with zero mapper (reducer) workers the map (reduce) queue is
\* never drained, yet the join of the phase has no thread to wait for, so it
\* completes at once, and run returns an empty result list.
ZeroPoolReturnsEmpty ==
    /\ (num_mappers = 0 /\ pc # "idle") =>
          map_queue = input_data /\ shuffle_dict = <<>> /\ results = <<>>
    /\ (num_mappers = 0 /\ pc = "mapping") => ENABLED JoinMappers
    /\ (num_reducers = 0 /\ pc \in {"reducing", "done"}) =>
          reduce_queue = ShuffleTasks(shuffle_dict) /\ results = <<>>
    /\ (num_reducers = 0 /\ pc = "reducing") => ENABLED JoinReducers

\* no reducer thread: run returned nothing and left two reduce tasks queued
ZeroPoolReturnsEmptyWitness ==
    /\ pc = "done"
    /\ num_mappers = 2 /\ num_reducers = 0
    /\ Len(reduce_queue) = 2
    /\ results = <<>>

\* C10: an empty or totally failed run yields an empty result.  When run
\* has returned and the Mapper invocation of every map task raised (no task
\* at all on an empty input), the result list is empty.
FailedRunIsEmpty ==
    (pc = "done" /\ \A k \in DOMAIN map_log : map_log[k].outcome = "raised") =>
        results = <<>>

\* a thread of the pool has started and not ended
Active(pool) == \E w \in Threads(pool) : w.pc # "done"

PhaseSteps ==
    {<<"idle", "mapping">>, <<"mapping", "shuffling">>, <<"shuffling", "shuffled">>,
     <<"shuffled", "reducing">>, <<"reducing", "done">>}

\* C11: phase ordering and barriers.  Within one run the caller goes through
\* mapping, shuffling, reducing and done in this order and no other.  Once
\* the shuffle may start no mapper thread is running; until the shuffle has
\* ended no reducer thread is running; when run has returned no reducer
\* thread is running.  Hence a mapper thread and a reducer thread never run
\* at the same time, and from the start of the shuffle on no step writes
\* shuffle_dict.
PhaseOrdering ==
    /\ [](pc \in {"shuffling", "shuffled", "reducing", "done"} => ~Active(mw))
    /\ [](pc \in {"idle", "mapping", "shuffling", "shuffled", "done"} => ~Active(rw))
    /\ [](~(Active(mw) /\ Active(rw)))
    /\ [][pc' # pc => <<pc, pc'>> \in PhaseSteps]_vars
    /\ [][(pc \in {"shuffling", "shuffled", "reducing", "done"})
             => (shuffle_dict' = shuffle_dict)]_vars

\* the caller waits in the second join: one reducer thread has ended, another
\* still runs, after both phases before it have left their data
PhaseOrderingWitness ==
    /\ pc = "reducing"
    /\ \E w \in Threads(rw) : w.pc = "done"
    /\ \E w \in Threads(rw) : w.pc = "next"
    /\ Len(shuffle_dict) = 2
    /\ results # <<>>

\* the threads of the pool that hold the task of the key k: they have taken
\* it from the queue and its invocation has not ended
RECURSIVE Holding(_, _, _)
Holding(pool, states, k) ==
    IF states = {} THEN 0
    ELSE LET w == CHOOSE x \in states : TRUE
         IN (IF w.task # NoTask /\ w.task[1] = k THEN CopiesIn(w, pool) ELSE 0)
            + Holding(pool, states \ {w}, k)

\* the tasks of the key k that wait in the queue q
Queued(q, k) == Cardinality({i \in DOMAIN q : q[i][1] = k})

\* the invocations for the key k that have ended
Ended(log, k) == IF log[k].outcome \in {"ok", "raised"} THEN 1 ELSE 0

\* C12: the shuffle produces one reduce task per distinct key.  When the
\* shuffle step has ended, the reduce queue holds, for every key of
\* shuffle_dict, the one task (key, list of the key), and no other task; the
\* keys of these tasks are the distinct keys the Mapper invocations yielded.
\* From then on every such key is at any moment either waiting in the queue
\* once, or held by one reducer thread, or reduced once: no key is reduced
\* twice.
OneTaskPerKey ==
    /\ pc = "shuffled" =>
          /\ Len(reduce_queue) = Cardinality(DictKeys(shuffle_dict))
          /\ Range(reduce_queue) =
                {<<k, DictGet(shuffle_dict, k)>> : k \in DictKeys(shuffle_dict)}
          /\ {reduce_queue[i][1] : i \in DOMAIN reduce_queue} = EmittedKeys
    /\ pc \in {"shuffled", "reducing", "done"} =>
          /\ DOMAIN reduce_log = EmittedKeys
          /\ \A k \in EmittedKeys :
                Queued(reduce_queue, k) + Holding(rw, Threads(rw), k)
                    + Ended(reduce_log, k) = 1

\* two records of one passenger have become one task with both values
OneTaskPerKeyWitness ==
    /\ pc = "shuffled"
    /\ Len(input_data) = 2
    /\ reduce_queue = <<<<"P1", <<1, 1>>>>>>

\* the threads of the pool that have been handed the pair p by the Mapper
\* and have not yet appended it
RECURSIVE InFlight(_, _, _)
InFlight(pool, states, p) ==
    IF states = {} THEN 0
    ELSE LET w == CHOOSE x \in states : TRUE
         IN (IF w.pc \in {"lock", "create", "append"} /\ w.pair = p
             THEN CopiesIn(w, pool) ELSE 0)
            + InFlight(pool, states \ {w}, p)

\* the pairs a Mapper of the model can yield
AllPairs == UserPairs \cup {<<id, 1>> : id \in Ids}

\* every key of shuffle_dict was yielded, and its list holds each value as
\* often as the pairs with it were yielded and appended so far
GroupsExact ==
    /\ DictKeys(shuffle_dict) \subseteq EmittedKeys
    /\ \A p \in AllPairs :
          TableCount(p) =
             Count(YieldedBy(map_log, AnyOutcome), p) - InFlight(mw, Threads(mw), p)

\* C13 as claimed: in every reachable state every key of shuffle_dict has a
\* non-empty list, and the list holds exactly the values yielded and appended
\* so far for the key.
ShuffleTableInvariant ==
    /\ \A k \in DictKeys(shuffle_dict) : DictGet(shuffle_dict, k) # <<>>
    /\ GroupsExact

\* C13: the shuffle dict invariant.  In every reachable state every key of
\* shuffle_dict was yielded by a Mapper invocation and its list holds exactly
\* the values yielded and appended so far for the key, in every
\* interleaving; and whenever shuffle_lock is free every key has a non-empty
\* list.  A list is empty only while the thread that holds the lock is
\* between creating it (line 151) and appending to it (line 152).
ShuffleTableInvariantUnlocked ==
    /\ GroupsExact
    /\ \A k \in DictKeys(shuffle_dict) :
          DictGet(shuffle_dict, k) = <<>> =>
             /\ shuffle_lock
             /\ \E w \in Threads(mw) : w.pc = "append" /\ w.pair[1] = k

\* a thread has created the list of a key and not yet appended to it, while
\* another thread waits for the lock with a pair of the same key
ShuffleTableInvariantWitness ==
    /\ shuffle_lock
    /\ \E k \in DictKeys(shuffle_dict) :
          /\ DictGet(shuffle_dict, k) = <<>>
          /\ \E w \in Threads(mw) : w.pc = "lock" /\ w.pair[1] = k

AllEnded(log) == \A k \in DOMAIN log : log[k].outcome \in {"ok", "raised"}

\* C14: exactly-once task processing under the busy-poll loop.  Every task
\* loaded into a queue before the threads of its phase start is at any
\* moment either waiting in the queue, or held by exactly one thread, or
\* processed once: no task is taken by two threads.  A thread that saw the
\* queue non-empty and then finds it empty on the non-blocking get takes
\* nothing.  With at least one thread in the pool, when the join of the phase
\* has returned the queue is empty and every task has been processed.
ExactlyOnce ==
    /\ pc # "idle" =>
          \A k \in DOMAIN map_log :
             Queued(map_queue, k) + Holding(mw, Threads(mw), k) + Ended(map_log, k) = 1
    /\ pc \in {"shuffled", "reducing", "done"} =>
          \A k \in DOMAIN reduce_log :
             Queued(reduce_queue, k) + Holding(rw, Threads(rw), k)
                 + Ended(reduce_log, k) = 1
    /\ (num_mappers >= 1 /\ pc \in {"shuffling", "shuffled", "reducing", "done"}) =>
          map_queue = <<>> /\ AllEnded(map_log)
    /\ (num_reducers >= 1 /\ pc = "done") =>
          reduce_queue = <<>> /\ AllEnded(reduce_log)

\* a mapper thread has seen the queue non-empty and stands before its get,
\* while another thread has taken the last task
ExactlyOnceWitness ==
    /\ map_queue = <<>>
    /\ \E w \in Threads(mw) : w.pc = "get"
    /\ \E w \in Threads(mw) : w.task # NoTask

\* the number of threads of the pool whose position is one of pcs
Inside(pool, pcs) ==
    BagCardinality([w \in {x \in Threads(pool) : x.pc \in pcs} |-> CopiesIn(w, pool)])

\* C15: lock discipline.  At most one mapper thread at a time is inside the
\* get-or-create-and-append step on shuffle_dict and at most one reducer
\* thread at a time is appending to results; each lock is held exactly while
\* a thread is inside its step, so no thread holds a lock while its Mapper
\* or Reducer computes the next output.  Every write of shuffle_dict and
\* every append to results is made with the lock held, and every append
\* releases it: each append is a critical section of its own.
LockDiscipline ==
    /\ [](Inside(mw, {"create", "append"}) = IF shuffle_lock THEN 1 ELSE 0)
    /\ [](Inside(rw, {"append"}) = IF results_lock THEN 1 ELSE 0)
    /\ [][(pc = "mapping" /\ shuffle_dict' # shuffle_dict) => shuffle_lock]_vars
    /\ [][(pc = "mapping" /\ \E p \in AllPairs : TableCount(p)' > TableCount(p))
             => (shuffle_lock /\ ~shuffle_lock')]_vars
    /\ [][(pc = "reducing" /\ results' # results)
             => (results_lock /\ ~results_lock')]_vars

\* one mapper thread is inside the step and another waits for the lock with
\* its pair
LockDisciplineWitness ==
    /\ shuffle_lock
    /\ \E w \in Threads(mw) : w.pc = "append"
    /\ \E w \in Threads(mw) : w.pc = "lock"

\* C16: termination under fair scheduling.  With at least one mapper thread
\* and one reducer thread, a finite input and Mapper and Reducer invocations
\* that end (by returning or by raising), a run that has started leads, when
\* the steps of the caller and of the threads are scheduled fairly, to the
\* state where every mapper thread and every reducer thread has ended and
\* run has returned.
FairTermination ==
    (pc = "mapping" /\ PositivePools) ~> (pc = "done" /\ ~Active(mw) /\ ~Active(rw))

\* the run has returned after both pools worked through two tasks, one of
\* which raised
FairTerminationWitness ==
    /\ pc = "done" /\ PositivePools
    /\ Len(input_data) = 2
    /\ \E k \in DOMAIN map_log : map_log[k].outcome = "raised"
    /\ \E k \in DOMAIN map_log : map_log[k].outcome = "ok"
    /\ results # <<>>

\* C17: the shuffle is idempotent.  With shuffle_dict left as it is,
\* performing the shuffle step a second time puts the same tasks as the
\* first time: the second batch equals the first, and it holds one task
\* (key, list of the key) per distinct key that was yielded.
IdempotentShuffle ==
    pc = "reshuffled" =>
        LET n == Cardinality(EmittedKeys)
            first == SubSeq(reduce_queue, 1, n)
            second == SubSeq(reduce_queue, n + 1, Len(reduce_queue))
        IN /\ Len(reduce_queue) = 2 * n
           /\ second = first
           /\ {second[i][1] : i \in DOMAIN second} = EmittedKeys
           /\ Range(second) =
                 {<<k, DictGet(shuffle_dict, k)>> : k \in DictKeys(shuffle_dict)}

\* the shuffle was performed twice on a dict of two keys
IdempotentShuffleWitness ==
    /\ pc = "reshuffled"
    /\ Len(shuffle_dict) = 2
    /\ Len(reduce_queue) = 4

\* C18: the lifecycle of the intermediate data.  The lists of shuffle_dict
\* are discarded when a run starts and again when the reduce phase has
\* drained them: when a run has just started, and when run has returned,
\* shuffle_dict and reduce_queue hold no pair and no list of values.  (Stated
\* for pools of at least one thread, where both queues are drained.)
IntermediateDataDiscarded ==
    /\ JustStarted => (shuffle_dict = <<>> /\ reduce_queue = <<>>)
    /\ (pc = "done" /\ PositivePools) => (shuffle_dict = <<>> /\ reduce_queue = <<>>)

\* the records of the input inp that carry the passenger id
CarryingIn(inp, id) ==
    {i \in DOMAIN inp :
        /\ "passenger_id" \in DOMAIN inp[i][2]
        /\ inp[i][2].passenger_id = id}

\* C19: no reentrancy.  When two invocations of run overlap on one engine,
\* the first is not isolated from the second: the reset of the second
\* replaces the queues, the dict and the result list while the threads of
\* the first are active, and what the first invocation returns is computed
\* from whatever the shared objects held.  All that stays guaranteed is that
\* every returned pair (id, n) is backed by records of the two inputs taken
\* together: n is at most the number of records of both inputs that carry
\* id.  Only an invocation that no other overlapped
\* returns the counts of its own input.  (The witness is the interleaving the
\* claim speaks of.)
NoReentrancy ==
    (pc = "done" /\ PositivePools) =>
        /\ \A i \in DOMAIN results :
              results[i][2] <=
                 Cardinality(CarryingIn(input_data \o other_input, results[i][1]))
        /\ runs = 1 =>
              /\ Range(results) = {<<id, Cardinality(Carrying(id))>> : id \in InputIds}
              /\ Len(results) = Cardinality(InputIds)

\* the first invocation, run on two records of P1 alone, has returned the
\* count of a record of the other invocation and nothing for its own input
NoReentrancyWitness ==
    /\ pc = "done" /\ PositivePools
    /\ runs = 2
    /\ Len(input_data) = 2
    /\ results = <<<<"P2", 1>>>>

\* C20: ownership of the returned results.  The list a run has returned is
\* not modified by the engine afterwards: the reset of the next run leaves it
\* with the pairs it was returned with and gives the next run a new, empty
\* list, and no step of a later run changes it while that run appends its
\* own results to the new list.
ReturnedUnchanged ==
    /\ [][(pc = "done") => (returned' = results /\ results' = <<>>)]_vars
    /\ [][(pc \in {"mapping", "shuffling", "shuffled", "reducing"})
             => (returned' = returned)]_vars

\* the second run has returned its own list, and the list the first run
\* returned still holds the pair of the first run
ReturnedUnchangedWitness ==
    /\ runs = 2 /\ pc = "done"
    /\ returned = <<<<"P1", 2>>>>
    /\ results = <<<<"P2", 1>>>>

\* ------------------------------------------------- AirportDataParser
\* src/data_parsers.py.  A string is the sequence of its characters; a float
\* is its sign, its integer part and the digits of its fraction without the
\* trailing zeros, which is exact for the strings COORDINATE_PATTERN lets
\* through.
Digits == <<"0", "1", "2", "3", "4", "5", "6", "7", "8", "9">>

DigitValue(c) == (CHOOSE i \in DOMAIN Digits : Digits[i] = c) - 1

UpperCase ==
    {"A", "B", "C", "D", "E", "F", "G", "H", "I", "J", "K", "L", "M",
     "N", "O", "P", "Q", "R", "S", "T", "U", "V", "W", "X", "Y", "Z"}

\* "$" of a pattern also matches before a newline that ends the string
Chomp(s) == IF s # <<>> /\ s[Len(s)] = "\n" THEN SubSeq(s, 1, Len(s) - 1) ELSE s

\* \d+
AllDigits(s) == s # <<>> /\ \A i \in DOMAIN s : s[i] \in Range(Digits)

\* the string without a leading "-"
Unsigned(s) == IF s # <<>> /\ s[1] = "-" THEN Tail(s) ELSE s

\* the position of the first "." of the string, 0 when it has none
DotAt(s) ==
    IF \E i \in DOMAIN s : s[i] = "."
    THEN CHOOSE i \in DOMAIN s : s[i] = "." /\ \A j \in 1..(i - 1) : s[j] # "."
    ELSE 0

IntegerDigits(s) == IF DotAt(s) = 0 THEN s ELSE SubSeq(s, 1, DotAt(s) - 1)

FractionDigits(s) == IF DotAt(s) = 0 THEN <<>> ELSE SubSeq(s, DotAt(s) + 1, Len(s))

\* ^.{3,20}$
AIRPORT_NAME_PATTERN(s) ==
    /\ Len(Chomp(s)) >= NameMin /\ Len(Chomp(s)) <= NameMax
    /\ \A i \in DOMAIN Chomp(s) : Chomp(s)[i] # "\n"

\* ^[A-Z]{3}$
AIRPORT_CODE_PATTERN(s) ==
    /\ Len(Chomp(s)) = CodeLen
    /\ \A i \in DOMAIN Chomp(s) : Chomp(s)[i] \in UpperCase

\* ^-?\d+(\.\d{1,13})?$
COORDINATE_PATTERN(s) ==
    LET u == Unsigned(Chomp(s)) IN
    /\ AllDigits(IntegerDigits(u))
    /\ DotAt(u) # 0 =>
          /\ AllDigits(FractionDigits(u))
          /\ Len(FractionDigits(u)) <= FractionMax

RECURSIVE Number(_)
Number(s) ==
    IF s = <<>> THEN 0
    ELSE 10 * Number(SubSeq(s, 1, Len(s) - 1)) + DigitValue(s[Len(s)])

RECURSIVE Significant(_)
Significant(s) ==
    IF s # <<>> /\ s[Len(s)] = "0" THEN Significant(SubSeq(s, 1, Len(s) - 1)) ELSE s

\* float(s), for a string the coordinate pattern matches
Float(s) ==
    LET t == Chomp(s)
        u == Unsigned(t)
    IN [neg |-> t # u, int |-> Number(IntegerDigits(u)),
        frac |-> Significant(FractionDigits(u))]

\* f < n and f > n, for a float f and an integer n
FloatLess(f, n) ==
    IF f.neg
    THEN f.int > -n \/ (f.int = -n /\ f.frac # <<>>)
    ELSE f.int < n

FloatGreater(f, n) ==
    IF f.neg
    THEN f.int < -n
    ELSE f.int > n \/ (f.int = n /\ f.frac # <<>>)

\* AirportDataParser._validate_airport_record
validate_airport_record(name, code, latitude, longitude) ==
    IF ~AIRPORT_NAME_PATTERN(name) THEN FALSE
    ELSE IF ~AIRPORT_CODE_PATTERN(code) THEN FALSE
    ELSE IF ~COORDINATE_PATTERN(latitude) THEN FALSE
    ELSE IF ~COORDINATE_PATTERN(longitude) THEN FALSE
    ELSE LET lat_float == Float(latitude)
             lon_float == Float(longitude)
         IN IF FloatLess(lat_float, -LatitudeLimit) \/ FloatGreater(lat_float, LatitudeLimit)
            THEN FALSE
            ELSE IF \/ FloatLess(lat_float, -LongitudeLimit)
                    \/ FloatGreater(lat_float, LongitudeLimit)
                 THEN FALSE
                 ELSE TRUE

\* the fields a row of the file may hold
AirportNames == {<<"J", "F", "K">>, <<"L", "A">>}
AirportCodes == {<<"J", "F", "K">>, <<"j", "f", "k">>}
Coordinates ==
    {<<"0">>, <<"4", "5">>, <<"9", "0">>, <<"9", "0", ".", "0">>,
     <<"9", "0", ".", "5">>, <<"-", "9", "0">>, <<"-", "9", "1">>,
     <<"9", "1">>, <<"1", "8", "0">>, <<"-", "1", "8", "0">>,
     <<"1", "8", "0", ".", "5">>, <<"1", "8", "1">>, <<"-", "1", "8", "1">>,
     <<"1", "x">>, <<>>, <<"1", ".">>, <<"4", "5", "\n">>}

\* the rows csv.reader may yield: four fields, or one field too few
Rows ==
    (AirportNames \X AirportCodes \X Coordinates \X Coordinates)
    \cup (AirportNames \X AirportCodes \X {<<"4", "5">>})

\* one iteration of the loop of AirportDataParser.parse, lines 171-195
ParseRow ==
    /\ ~parsed
    /\ line_num < MaxLines
    /\ line_num' = line_num + 1
    /\ \E row \in Rows :
         airports' =
            IF Len(row) # RowFields THEN airports
            ELSE IF ~validate_airport_record(row[1], row[2], row[3], row[4])
                 THEN airports
                 ELSE DictSet(airports, row[2],
                              [name |-> row[1], code |-> row[2],
                               latitude |-> Float(row[3]), longitude |-> Float(row[4])])
    /\ UNCHANGED <<parsed, framework>>

\* the file has no more rows (or could not be opened): return airports
ParseReturn ==
    /\ ~parsed
    /\ parsed' = TRUE
    /\ UNCHANGED <<line_num, airports, framework>>

NextParse == ParseRow \/ ParseReturn

ParseSpec == Init /\ [][NextParse]_vars

\* the float f lies in -limit..limit
InRange(f, limit) == ~FloatLess(f, -limit) /\ ~FloatGreater(f, limit)

\* C21: airport record range validation.  Every record whose latitude is
\* outside -90..90 and every record whose longitude is outside -180..180 is
\* rejected, so the dict AirportDataParser.parse builds and returns never
\* holds an airport with a latitude or a longitude out of its range.
AirportRangeValidation ==
    \A i \in DOMAIN airports :
       /\ InRange(airports[i][2].latitude, LatitudeLimit)
       /\ InRange(airports[i][2].longitude, LongitudeLimit)

====
